---- MODULE Spec2Model ----
(***************************************************************************)
(* A model of the SQL parser of src/src/SQLParser.ts (class SQLParser,     *)
(* lines 71-454): the regular-expression lexer `tokenize` and the          *)
(* recursive-descent parser `parse` with its statement parsers.            *)
(*                                                                         *)
(* A JavaScript string is modelled as a sequence of one-character strings, *)
(* so that the lexer can be modelled character by character.               *)
(***************************************************************************)
EXTENDS Integers, Sequences, FiniteSets, TLC

(***************************************************************************)
(* Characters                                                              *)
(***************************************************************************)
LowerLetters ==
  <<"a","b","c","d","e","f","g","h","i","j","k","l","m",
    "n","o","p","q","r","s","t","u","v","w","x","y","z">>

UpperLetters ==
  <<"A","B","C","D","E","F","G","H","I","J","K","L","M",
    "N","O","P","Q","R","S","T","U","V","W","X","Y","Z">>

DigitChars == <<"0","1","2","3","4","5","6","7","8","9">>

Range(f) == { f[i] : i \in DOMAIN f }

IndexIn(seq, c) == CHOOSE i \in DOMAIN seq : seq[i] = c

LowerSet == Range(LowerLetters)

UpperSet == Range(UpperLetters)

DigitSet == Range(DigitChars)

WordSet == LowerSet \cup UpperSet \cup DigitSet \cup {"_"}

\* String.prototype.toUpperCase / toLowerCase, one character
UpperChar(c) == IF c \in LowerSet THEN UpperLetters[IndexIn(LowerLetters, c)] ELSE c

LowerChar(c) == IF c \in UpperSet THEN LowerLetters[IndexIn(UpperLetters, c)] ELSE c

ToUpperCase(s) == [i \in DOMAIN s |-> UpperChar(s[i])]

ToLowerCase(s) == [i \in DOMAIN s |-> LowerChar(s[i])]

\* the regular expression classes \d, \w and \s
IsDigit(c) == c \in DigitSet

IsWordChar(c) == c \in WordSet

IsSpace(c) == c \in {" ", "\t"}

\* s.slice(a, b) with 1-based a and exclusive b
Slice(s, a, b) == SubSeq(s, a, b - 1)

\* String.prototype.trim
RECURSIVE TrimLeft(_)
TrimLeft(s) == IF s # <<>> /\ IsSpace(Head(s)) THEN TrimLeft(Tail(s)) ELSE s

RECURSIVE TrimRight(_)
TrimRight(s) ==
  IF s # <<>> /\ IsSpace(s[Len(s)]) THEN TrimRight(SubSeq(s, 1, Len(s) - 1)) ELSE s

Trim(s) == TrimRight(TrimLeft(s))

\* parseInt(text, 10) of a run of decimal digits
RECURSIVE ParseInt(_)
ParseInt(s) ==
  IF s = <<>> THEN 0
  ELSE 10 * ParseInt(SubSeq(s, 1, Len(s) - 1)) + (IndexIn(DigitChars, s[Len(s)]) - 1)

(***************************************************************************)
(* The keywords of the lexer's regular expression, in its written order    *)
(***************************************************************************)
KW_SELECT == <<"S","E","L","E","C","T">>
KW_UPDATE == <<"U","P","D","A","T","E">>
KW_DELETE == <<"D","E","L","E","T","E">>
KW_CREATE == <<"C","R","E","A","T","E">>
KW_TABLE == <<"T","A","B","L","E">>
KW_FROM == <<"F","R","O","M">>
KW_WHERE == <<"W","H","E","R","E">>
KW_SET == <<"S","E","T">>
KW_VALUES == <<"V","A","L","U","E","S">>
KW_INSERT == <<"I","N","S","E","R","T">>
KW_INTO == <<"I","N","T","O">>
KW_AND == <<"A","N","D">>
KW_OR == <<"O","R">>
KW_NOT == <<"N","O","T">>
KW_NULL == <<"N","U","L","L">>
KW_PRIMARY == <<"P","R","I","M","A","R","Y">>
KW_KEY == <<"K","E","Y">>
KW_VARCHAR == <<"V","A","R","C","H","A","R">>
KW_INT == <<"I","N","T">>
KW_CHAR == <<"C","H","A","R">>
KW_IF == <<"I","F">>
KW_EXISTS == <<"E","X","I","S","T","S">>
OP_IN == <<"I","N">>

RegexKeywords ==
  <<KW_SELECT, KW_UPDATE, KW_DELETE, KW_CREATE, KW_TABLE, KW_FROM, KW_WHERE, KW_SET,
    KW_VALUES, KW_INSERT, KW_INTO, KW_AND, KW_OR, KW_NOT, KW_NULL, KW_PRIMARY, KW_KEY,
    KW_VARCHAR, KW_INT, KW_CHAR, KW_IF, KW_EXISTS>>

(***************************************************************************)
(* The lexer: one regular expression with the flags g and i, applied with  *)
(* exec until it matches no more.  Positions are 1-based; a match is       *)
(* [group, from, to, start, end), `start..end` being the whole match and   *)
(* `from..to` the text of the named group.                                 *)
(***************************************************************************)
NoMatch == [group |-> "none"]

\* the word w (upper case) is at position i of s, in any letter case
StartsWithCI(s, i, w) ==
  /\ i >= 1
  /\ i + Len(w) - 1 <= Len(s)
  /\ \A k \in 1..Len(w) : UpperChar(s[i + k - 1]) = w[k]

\* \s* : the first position at or after i that holds no white space
RECURSIVE SkipSpaces(_, _)
SkipSpaces(s, i) == IF i <= Len(s) /\ IsSpace(s[i]) THEN SkipSpaces(s, i + 1) ELSE i

\* the first position at or after i where the word w starts, 0 if none
RECURSIVE FindWordCI(_, _, _)
FindWordCI(s, i, w) ==
  IF i + Len(w) - 1 > Len(s) THEN 0
  ELSE IF StartsWithCI(s, i, w) THEN i
  ELSE FindWordCI(s, i + 1, w)

\* the first position at or after i that holds the character c, 0 if none
RECURSIVE FindChar(_, _, _)
FindChar(s, i, c) ==
  IF i > Len(s) THEN 0 ELSE IF s[i] = c THEN i ELSE FindChar(s, i + 1, c)

\* \d+ : the end of the greedy run of digits that starts at i
RECURSIVE DigitRunEnd(_, _)
DigitRunEnd(s, i) == IF i <= Len(s) /\ IsDigit(s[i]) THEN DigitRunEnd(s, i + 1) ELSE i

\* \w+ : the end of the greedy run of word characters that starts at i
RECURSIVE WordRunEnd(_, _)
WordRunEnd(s, i) == IF i <= Len(s) /\ IsWordChar(s[i]) THEN WordRunEnd(s, i + 1) ELSE i

\* (?<operator>=|<=|>=|==|!=|<>|>|<|=|IN|[*<>]) at j: the length matched, 0 if none.
\* The alternatives are tried in the written order, so `=` wins over `==`.
OperatorLen(s, j) ==
  LET two(a, b) == j + 1 <= Len(s) /\ s[j] = a /\ s[j + 1] = b
  IN  IF j > Len(s) THEN 0
      ELSE IF s[j] = "=" THEN 1
      ELSE IF two("<", "=") THEN 2
      ELSE IF two(">", "=") THEN 2
      ELSE IF two("!", "=") THEN 2
      ELSE IF two("<", ">") THEN 2
      ELSE IF s[j] = ">" THEN 1
      ELSE IF s[j] = "<" THEN 1
      ELSE IF StartsWithCI(s, j, OP_IN) THEN 2
      ELSE IF s[j] = "*" THEN 1
      ELSE 0

\* \b at position i: exactly one of s[i-1], s[i] is a word character
WordBoundary(s, i) ==
  LET before == i - 1 >= 1 /\ i - 1 <= Len(s) /\ IsWordChar(s[i - 1])
      after == i >= 1 /\ i <= Len(s) /\ IsWordChar(s[i])
  IN  before # after

\* (?<keyword>\b(?:SELECT|...|EXISTS)\b) at i: the length matched, 0 if none
KeywordLen(s, i) ==
  LET hits == { k \in DOMAIN RegexKeywords :
                  /\ WordBoundary(s, i)
                  /\ StartsWithCI(s, i, RegexKeywords[k])
                  /\ WordBoundary(s, i + Len(RegexKeywords[k])) }
  IN  IF hits = {} THEN 0
      ELSE Len(RegexKeywords[CHOOSE k \in hits : \A m \in hits : k <= m])

\* (?<subquery>\(SELECT.*?FROM.*?\)) at i: the position after the match, 0 if none
SubqueryEnd(s, i) ==
  IF ~(i <= Len(s) /\ s[i] = "(" /\ StartsWithCI(s, i + 1, KW_SELECT)) THEN 0
  ELSE LET f == FindWordCI(s, i + 1 + Len(KW_SELECT), KW_FROM)
           p == IF f = 0 THEN 0 ELSE FindChar(s, f + Len(KW_FROM), ")")
       IN  IF p = 0 THEN 0 ELSE p + 1

\* (?<doubleQuotedString>".*?") or (?<singleQuotedString>'.*?') at i
QuotedEnd(s, i, q) ==
  IF ~(i <= Len(s) /\ s[i] = q) THEN 0
  ELSE LET p == FindChar(s, i + 1, q) IN IF p = 0 THEN 0 ELSE p + 1

\* the regular expression tried at position i: its alternatives in written order
MatchAt(s, i) ==
  LET j == SkipSpaces(s, i)
      opn == OperatorLen(s, j)
      sq == SubqueryEnd(s, i)
      kw == KeywordLen(s, i)
      dq == QuotedEnd(s, i, "\"")
      sg == QuotedEnd(s, i, "'")
      hit(g, from, to, end) ==
        [group |-> g, from |-> from, to |-> to, start |-> i, end |-> end]
  IN  IF opn > 0 THEN hit("operator", j, j + opn, j + opn)
      ELSE IF sq > 0 THEN hit("subquery", i, sq, sq)
      ELSE IF s[i] = ";" THEN hit("semicolon", i, i + 1, i + 1)
      ELSE IF s[i] \in {"(", "|", ")"} THEN hit("paren", i, i + 1, i + 1)
      ELSE IF s[i] = "," THEN hit("comma", i, i + 1, i + 1)
      ELSE IF kw > 0 THEN hit("keyword", i, i + kw, i + kw)
      ELSE IF dq > 0 THEN hit("doubleQuotedString", i, dq, dq)
      ELSE IF sg > 0 THEN hit("singleQuotedString", i, sg, sg)
      ELSE IF IsDigit(s[i]) THEN
             LET e == DigitRunEnd(s, i) IN hit("number", i, e, e)
      ELSE IF IsWordChar(s[i]) THEN
             LET e == WordRunEnd(s, i)
             IN  hit("identifier", i, e, SkipSpaces(s, e))
      ELSE NoMatch

\* re.exec(sql) with re.lastIndex = i - 1: the leftmost match at or after i
RECURSIVE Exec(_, _)
Exec(s, i) ==
  IF i > Len(s) THEN NoMatch
  ELSE IF MatchAt(s, i) # NoMatch THEN MatchAt(s, i)
  ELSE Exec(s, i + 1)

Token(type, value) == [type |-> type, value |-> value]

\* the body of the tokenize loop: the token pushed for one match
TokenOf(s, m) ==
  LET value == Slice(s, m.start, m.end)
      text == Slice(s, m.from, m.to)
      trimmed == Trim(value)
      quoted == /\ Len(trimmed) >= 1
                /\ trimmed[1] \in {"'", "\""}
                /\ trimmed[Len(trimmed)] \in {"'", "\""}
  IN  IF m.group = "keyword" THEN Token("KEYWORD", ToUpperCase(text))
      ELSE IF m.group = "subquery" THEN Token("SUBQUERY", text)
      ELSE IF m.group = "number" THEN Token("NUMBER", text)
      ELSE IF quoted THEN Token("STRING", value)
      ELSE IF m.group = "operator" THEN Token("OPERATOR", text)
      ELSE IF m.group = "comma" THEN Token("COMMA", text)
      ELSE IF m.group = "paren" THEN Token("PAREN", text)
      ELSE IF m.group = "semicolon" THEN Token("SEMICOLON", text)
      ELSE Token("IDENTIFIER", trimmed)

RECURSIVE TokenizeFrom(_, _)
TokenizeFrom(s, i) ==
  LET m == Exec(s, i)
  IN  IF m = NoMatch THEN <<>>
      ELSE <<TokenOf(s, m)>> \o TokenizeFrom(s, m.end)

tokenize(sql) == TokenizeFrom(sql, 1)

(***************************************************************************)
(* JavaScript values.  An identifier and a string literal both yield a     *)
(* JavaScript string; a number token yields a number; "no match" is null.  *)
(***************************************************************************)
Null == [t |-> "null"]

Str(chars) == [t |-> "string", s |-> chars]

Num(n) == [t |-> "number", n |-> n]

Array(items) == [t |-> "array", items |-> items]

\* a ?? b
Coalesce(a, b) == IF a # Null THEN a ELSE b

(***************************************************************************)
(* The cursor helpers.  `cur` is this.current (0-based): the current token *)
(* is toks[cur + 1].  Each helper returns its result and the new cursor.   *)
(***************************************************************************)
hasMoreToken(toks, cur) == cur < Len(toks)

\* this.currentToken(): undefined past the end, so reading .type there throws
currentToken(toks, cur) == toks[cur + 1]

\* eat as it would be without the comparison of the token type
eatAnyType(toks, cur, type) ==
  IF hasMoreToken(toks, cur)
  THEN [token |-> currentToken(toks, cur), current |-> cur + 1]
  ELSE [token |-> Null, current |-> cur]

\* this.eat(type)
eat(toks, cur, type) ==
  IF hasMoreToken(toks, cur) /\ currentToken(toks, cur).type = type
  THEN [token |-> currentToken(toks, cur), current |-> cur + 1]
  ELSE [token |-> Null, current |-> cur]

parseIdentifier(toks, cur) ==
  LET e == eat(toks, cur, "IDENTIFIER")
  IN  IF hasMoreToken(toks, cur) /\ e.token # Null
      THEN [value |-> Str(e.token.value), current |-> e.current]
      ELSE [value |-> Null, current |-> cur]

parseNumber(toks, cur) ==
  LET e == eat(toks, cur, "NUMBER")
  IN  IF hasMoreToken(toks, cur) /\ e.token # Null
      THEN [value |-> Num(ParseInt(e.token.value)), current |-> e.current]
      ELSE [value |-> Null, current |-> cur]

\* token.value.slice(1, -1): the text without its first and last character
StripQuotes(chars) == SubSeq(chars, 2, Len(chars) - 1)

parseString(toks, cur) ==
  LET e == eat(toks, cur, "STRING")
  IN  IF hasMoreToken(toks, cur) /\ e.token # Null
      THEN [value |-> Str(StripQuotes(e.token.value)), current |-> e.current]
      ELSE [value |-> Null, current |-> cur]

parseOperator(toks, cur) ==
  LET e == eat(toks, cur, "OPERATOR")
  IN  IF hasMoreToken(toks, cur) /\ e.token # Null
      THEN [value |-> Str(e.token.value), current |-> e.current]
      ELSE [value |-> Null, current |-> cur]

\* the value read as parseValue reads it, but without consuming its token
parseValuePeek(toks, cur) ==
  LET tok == currentToken(toks, cur)
  IN  [value |-> IF ~hasMoreToken(toks, cur) THEN Null
                 ELSE IF tok.type = "IDENTIFIER" THEN Str(tok.value)
                 ELSE IF tok.type = "STRING" THEN Str(StripQuotes(tok.value))
                 ELSE IF tok.type = "NUMBER" THEN Num(ParseInt(tok.value))
                 ELSE Null,
       current |-> cur]

\* this.parseIdentifier() ?? this.parseString() ?? this.parseNumber():
\* the right operand of ?? is evaluated only when the left one is null
parseValue(toks, cur) ==
  LET i == parseIdentifier(toks, cur)
      s == parseString(toks, cur)
      n == parseNumber(toks, cur)
  IN  [value |-> Coalesce(i.value, Coalesce(s.value, n.value)),
       current |-> IF i.value # Null THEN i.current
                   ELSE IF s.value # Null THEN s.current
                   ELSE n.current]

\* this.parseString() ?? this.parseNumber()
parseLiteral(toks, cur) ==
  LET s == parseString(toks, cur)
      n == parseNumber(toks, cur)
  IN  [value |-> Coalesce(s.value, n.value),
       current |-> IF s.value # Null THEN s.current ELSE n.current]

\* a plausible bug of pushUnique: the includes test forgotten
pushAlways(list, v) == Append(list, v)

\* if (!tmp.includes(valuesToCheck)) tmp.push(valuesToCheck)
pushUnique(list, v) == IF \E i \in DOMAIN list : list[i] = v THEN list ELSE Append(list, v)

\* set[column] = value on an object that keeps its keys in insertion order
setProperty(obj, key, value) ==
  IF \E i \in DOMAIN obj : obj[i].key = key
  THEN [i \in DOMAIN obj |-> IF obj[i].key = key THEN [key |-> key, value |-> value] ELSE obj[i]]
  ELSE Append(obj, [key |-> key, value |-> value])

\* a plausible bug of whereGroups: the two pushes in the other order
whereGroupsOrFirst(andConds, orConds) ==
  (IF Len(orConds) > 0 THEN <<[operator |-> "or", condition |-> orConds]>> ELSE <<>>)
  \o (IF Len(andConds) > 0 THEN <<[operator |-> "and", condition |-> andConds]>> ELSE <<>>)

\* the where array built after the WHERE loop of parseSelect
whereGroups(andConds, orConds) ==
  (IF Len(andConds) > 0 THEN <<[operator |-> "and", condition |-> andConds]>> ELSE <<>>)
  \o (IF Len(orConds) > 0 THEN <<[operator |-> "or", condition |-> orConds]>> ELSE <<>>)

\* a plausible bug of eatsOr: the eaten keyword compared without toLowerCase
eatsOrCaseSensitive(toks, cur) ==
  LET e == eat(toks, cur, "KEYWORD")
  IN  hasMoreToken(toks, cur) /\ e.token # Null /\ e.token.value = <<"o", "r">>

\* the test after a parsed condition in parseSelect:
\* this.hasMoreToken() && this.eat("KEYWORD")?.value.toLowerCase() === "or"
eatsOr(toks, cur) ==
  LET e == eat(toks, cur, "KEYWORD")
  IN  hasMoreToken(toks, cur) /\ e.token # Null /\ ToLowerCase(e.token.value) = <<"o", "r">>

(***************************************************************************)
(* The parser as a state machine.  The variables are the fields of the     *)
(* running SQLParser (sql, tokens, current), the local variables of the    *)
(* statement parser and of parseExpression that is executing, the position *)
(* in the code (pc, and ret: where parseExpression returns to), the        *)
(* parsers suspended in a subquery (stack), the outcome of parse(), and    *)
(* the texts and outcomes of the parses that ended before this parser was  *)
(* constructed (earlier).                                                  *)
(***************************************************************************)
VARIABLES sql, tokens, current, pc, ret, columns, table, set, where, and, or, tmp,
          left, operator, exprTmp, expr, stack, outcome, earlier

vars == <<sql, tokens, current, pc, ret, columns, table, set, where, and, or, tmp,
          left, operator, exprTmp, expr, stack, outcome, earlier>>

parserFields == <<sql, tokens>>

selectLocals == <<columns, and, or, tmp>>

updateLocals == <<set, where>>

exprLocals == <<left, operator, exprTmp>>

\* an exception: nothing in the class catches, so it ends every suspended parser
\* too; the stack is left as it was when the exception was thrown
Throw(kind) ==
  /\ pc' = "failed"
  /\ outcome' = [error |-> kind]
  /\ stack' = stack
  /\ earlier' = earlier

\* return statement
Return(statement) ==
  /\ pc' = "done"
  /\ outcome' = statement
  /\ stack' = stack
  /\ earlier' = earlier

Goto(label) ==
  /\ pc' = label
  /\ UNCHANGED <<outcome, stack, earlier>>

DispatchKeywords == {KW_SELECT, KW_UPDATE, KW_DELETE, KW_CREATE}

\* parse()
Parse ==
  /\ pc = "parse"
  /\ IF ~hasMoreToken(tokens, current)
     THEN Throw("TypeError") /\ UNCHANGED current
     ELSE LET tok == currentToken(tokens, current)
              kw == ToUpperCase(tok.value)
          IN  IF tok.type = "KEYWORD" /\ kw \in DispatchKeywords
              THEN /\ Goto(CASE kw = KW_SELECT -> "parseSelect"
                             [] kw = KW_UPDATE -> "parseUpdate"
                             [] kw = KW_DELETE -> "parseDelete"
                             [] kw = KW_CREATE -> "parseCreateTable")
                   /\ current' = IF kw = KW_CREATE
                                 THEN eat(tokens, current, "KEYWORD").current
                                 ELSE current
              ELSE Throw("Error") /\ UNCHANGED current
  /\ UNCHANGED <<parserFields, ret, table, selectLocals, updateLocals, exprLocals, expr>>

\* parseSelect(): skip 'SELECT'
ParseSelect ==
  /\ pc = "parseSelect"
  /\ columns' = <<>>
  /\ current' = eat(tokens, current, "KEYWORD").current
  /\ Goto("selectColumns")
  /\ UNCHANGED <<parserFields, ret, table, and, or, tmp, updateLocals, exprLocals, expr>>

\* parseSelect(): one test of the column loop, and its body
SelectColumn ==
  /\ pc = "selectColumns"
  /\ IF ~hasMoreToken(tokens, current)
     THEN Throw("TypeError") /\ UNCHANGED <<current, columns>>
     ELSE IF currentToken(tokens, current).type = "IDENTIFIER"
     THEN LET id == parseIdentifier(tokens, current)
              comma == eat(tokens, id.current, "COMMA")
          IN  /\ columns' = Append(columns, id.value)
              /\ current' = comma.current
              /\ Goto(IF comma.token # Null THEN "selectColumns" ELSE "selectFrom")
     ELSE Goto("selectFrom") /\ UNCHANGED <<current, columns>>
  /\ UNCHANGED <<parserFields, ret, table, and, or, tmp, updateLocals, exprLocals, expr>>

\* parseSelect(): skip 'FROM', the table, the test for WHERE
SelectFrom ==
  /\ pc = "selectFrom"
  /\ LET from == eat(tokens, current, "KEYWORD")
         id == parseIdentifier(tokens, from.current)
         isWhere == /\ hasMoreToken(tokens, id.current)
                    /\ ToUpperCase(currentToken(tokens, id.current).value) = KW_WHERE
                    /\ eat(tokens, id.current, "KEYWORD").token # Null
     IN  /\ table' = id.value
         /\ and' = <<>>
         /\ or' = <<>>
         /\ tmp' = <<>>
         /\ IF isWhere
            THEN /\ current' = eat(tokens, id.current, "KEYWORD").current
                 /\ Goto("selectWhere")
            ELSE /\ current' = id.current
                 /\ Return([type |-> "SELECT", columns |-> columns, table |-> id.value,
                            where |-> <<>>])
  /\ UNCHANGED <<parserFields, ret, columns, updateLocals, exprLocals, expr>>

\* parseSelect(): the test of the WHERE loop; the call of parseExpression or,
\* after the loop, the where array and the return
SelectWhere ==
  /\ pc = "selectWhere"
  /\ IF hasMoreToken(tokens, current) /\ currentToken(tokens, current).type # "KEYWORD"
     THEN /\ ret' = "selectAfterExpression"
          /\ Goto("parseExpression")
     ELSE /\ ret' = ret
          /\ Return([type |-> "SELECT", columns |-> columns, table |-> table,
                     where |-> whereGroups(and, or)])
  /\ UNCHANGED <<parserFields, current, table, selectLocals, updateLocals, exprLocals, expr>>

\* parseSelect(): the condition parseExpression returned goes to a bucket
SelectAfterExpression ==
  /\ pc = "selectAfterExpression"
  /\ LET queue == Append(tmp, expr)
     IN  /\ tmp' = Tail(queue)
         /\ IF eatsOr(tokens, current)
            THEN or' = Append(or, Head(queue)) /\ and' = and
            ELSE and' = Append(and, Head(queue)) /\ or' = or
  /\ current' = IF hasMoreToken(tokens, current)
                THEN eat(tokens, current, "KEYWORD").current
                ELSE current
  /\ Goto("selectWhere")
  /\ UNCHANGED <<parserFields, ret, columns, table, updateLocals, exprLocals, expr>>

\* the frame a parser leaves on the stack while a subquery is parsed
Frame(cur, l, o) ==
  [sql |-> sql, tokens |-> tokens, current |-> cur, ret |-> ret, columns |-> columns,
   table |-> table, set |-> set, where |-> where, and |-> and, or |-> or, tmp |-> tmp,
   left |-> l, operator |-> o]

\* parseExpression(), up to the IN list
ParseExpression ==
  /\ pc = "parseExpression"
  /\ LET l == IF hasMoreToken(tokens, current)
              THEN parseIdentifier(tokens, current)
              ELSE [value |-> Null, current |-> current]
         o == IF hasMoreToken(tokens, l.current)
              THEN parseOperator(tokens, l.current)
              ELSE [value |-> Null, current |-> l.current]
         keep == UNCHANGED <<parserFields, ret, columns, table, set, where, and, or, tmp>>
     IN  IF l.value = Null \/ o.value = Null
         THEN /\ Throw("Error")
              /\ current' = o.current
              /\ keep
              /\ UNCHANGED <<exprLocals, expr>>
         ELSE IF ToUpperCase(o.value.s) # OP_IN
         THEN LET v == parseValue(tokens, o.current)
              IN  /\ left' = l.value
                  /\ operator' = o.value
                  /\ exprTmp' = <<>>
                  /\ expr' = [left |-> l.value, operator |-> o.value, right |-> v.value]
                  /\ current' = v.current
                  /\ Goto(ret)
                  /\ keep
         ELSE IF ~hasMoreToken(tokens, o.current)
         THEN /\ Throw("TypeError")
              /\ current' = o.current
              /\ left' = l.value
              /\ operator' = o.value
              /\ exprTmp' = <<>>
              /\ keep
              /\ UNCHANGED expr
         ELSE IF currentToken(tokens, o.current).type = "SUBQUERY"
         THEN LET sub == eat(tokens, o.current, "SUBQUERY")
              IN  /\ stack' = Append(stack, Frame(sub.current, l.value, o.value))
                  /\ sql' = StripQuotes(sub.token.value)
                  /\ tokens' = tokenize(StripQuotes(sub.token.value))
                  /\ current' = 0
                  /\ pc' = "parse"
                  /\ ret' = "none"
                  /\ columns' = <<>>
                  /\ table' = Null
                  /\ set' = <<>>
                  /\ where' = <<>>
                  /\ and' = <<>>
                  /\ or' = <<>>
                  /\ tmp' = <<>>
                  /\ left' = Null
                  /\ operator' = Null
                  /\ exprTmp' = <<>>
                  /\ UNCHANGED <<expr, outcome, earlier>>
         ELSE /\ left' = l.value
              /\ operator' = o.value
              /\ exprTmp' = <<>>
              /\ current' = eat(tokens, o.current, "PAREN").current
              /\ Goto("inList")
              /\ keep
              /\ UNCHANGED expr

\* parseExpression(): `_tmp.parse()` returned; the suspended parser goes on
SubqueryReturn ==
  /\ pc = "done"
  /\ stack # <<>>
  /\ LET f == stack[Len(stack)]
     IN  /\ sql' = f.sql
         /\ tokens' = f.tokens
         /\ current' = f.current
         /\ ret' = f.ret
         /\ columns' = f.columns
         /\ table' = f.table
         /\ set' = f.set
         /\ where' = f.where
         /\ and' = f.and
         /\ or' = f.or
         /\ tmp' = f.tmp
         /\ left' = f.left
         /\ operator' = f.operator
         /\ exprTmp' = <<outcome>>
         /\ expr' = [left |-> f.left, operator |-> f.operator, right |-> Array(<<outcome>>)]
         /\ pc' = f.ret
         /\ outcome' = Null
         /\ stack' = SubSeq(stack, 1, Len(stack) - 1)
         /\ earlier' = earlier

ValueTokenTypes == {"IDENTIFIER", "STRING", "NUMBER"}

\* parseExpression(): one test of the IN-list loop, and its body or the return
InList ==
  /\ pc = "inList"
  /\ IF ~hasMoreToken(tokens, current)
     THEN Throw("TypeError") /\ UNCHANGED <<current, exprTmp, expr>>
     ELSE IF currentToken(tokens, current).type \in ValueTokenTypes
     THEN LET v == parseValue(tokens, current)
          IN  /\ exprTmp' = pushUnique(exprTmp, v.value)
              /\ current' = IF hasMoreToken(tokens, v.current)
                            THEN eat(tokens, v.current, "COMMA").current
                            ELSE v.current
              /\ Goto("inList")
              /\ UNCHANGED expr
     ELSE /\ current' = eat(tokens, current, "PAREN").current
          /\ expr' = [left |-> left, operator |-> operator, right |-> Array(exprTmp)]
          /\ Goto(ret)
          /\ UNCHANGED exprTmp
  /\ UNCHANGED <<parserFields, ret, table, selectLocals, updateLocals, left, operator>>

\* parseUpdate(): skip 'UPDATE', the table, skip 'SET'
ParseUpdate ==
  /\ pc = "parseUpdate"
  /\ LET upd == eat(tokens, current, "KEYWORD")
         id == parseIdentifier(tokens, upd.current)
     IN  /\ table' = id.value
         /\ current' = eat(tokens, id.current, "KEYWORD").current
  /\ set' = <<>>
  /\ Goto("updateSet")
  /\ UNCHANGED <<parserFields, ret, selectLocals, where, exprLocals, expr>>

\* parseUpdate(): one test of the assignment loop, and its body
UpdateSet ==
  /\ pc = "updateSet"
  /\ IF hasMoreToken(tokens, current) /\ currentToken(tokens, current).type = "IDENTIFIER"
     THEN LET column == parseIdentifier(tokens, current)
              eq == eat(tokens, column.current, "OPERATOR")
              value == parseLiteral(tokens, eq.current)
              comma == eat(tokens, value.current, "COMMA")
              more == hasMoreToken(tokens, value.current) /\ comma.token # Null
          IN  /\ set' = setProperty(set, column.value.s, value.value)
              /\ current' = IF more THEN comma.current ELSE value.current
              /\ Goto(IF more THEN "updateSet" ELSE "updateWhereKeyword")
     ELSE Goto("updateWhereKeyword") /\ UNCHANGED <<current, set>>
  /\ UNCHANGED <<parserFields, ret, table, selectLocals, where, exprLocals, expr>>

\* parseUpdate(): this.hasMoreToken() && this.eat("KEYWORD")?.value === "WHERE"
UpdateWhereKeyword ==
  /\ pc = "updateWhereKeyword"
  /\ LET kw == eat(tokens, current, "KEYWORD")
         isWhere == hasMoreToken(tokens, current) /\ kw.token # Null /\ kw.token.value = KW_WHERE
     IN  /\ current' = IF hasMoreToken(tokens, current) THEN kw.current ELSE current
         /\ where' = <<>>
         /\ IF isWhere
            THEN Goto("updateWhere")
            ELSE Return([type |-> "UPDATE", table |-> table, set |-> set, where |-> <<>>])
  /\ UNCHANGED <<parserFields, ret, table, selectLocals, set, exprLocals, expr>>

\* parseUpdate(): the test of the WHERE loop; the call of parseExpression or the return
UpdateWhere ==
  /\ pc = "updateWhere"
  /\ IF hasMoreToken(tokens, current) /\ currentToken(tokens, current).type # "KEYWORD"
     THEN /\ ret' = "updateAfterExpression"
          /\ Goto("parseExpression")
     ELSE /\ ret' = ret
          /\ Return([type |-> "UPDATE", table |-> table, set |-> set, where |-> where])
  /\ UNCHANGED <<parserFields, current, table, selectLocals, updateLocals, exprLocals, expr>>

\* parseUpdate(): the condition parseExpression returned is pushed on where
UpdateAfterExpression ==
  /\ pc = "updateAfterExpression"
  /\ where' = Append(where, expr)
  /\ current' = IF hasMoreToken(tokens, current) /\ currentToken(tokens, current).type = "KEYWORD"
                THEN eat(tokens, current, "KEYWORD").current
                ELSE current
  /\ Goto("updateWhere")
  /\ UNCHANGED <<parserFields, ret, table, selectLocals, set, exprLocals, expr>>

\* parseDelete(), up to the call of parseExpression
ParseDelete ==
  /\ pc = "parseDelete"
  /\ LET del == eat(tokens, current, "KEYWORD")
         from == eat(tokens, del.current, "KEYWORD")
         id == parseIdentifier(tokens, from.current)
         kw == eat(tokens, id.current, "KEYWORD")
     IN  /\ table' = id.value
         /\ current' = kw.current
         /\ IF kw.token # Null /\ kw.token.value = KW_WHERE
            THEN /\ ret' = "deleteAfterExpression"
                 /\ Goto("parseExpression")
            ELSE /\ ret' = ret
                 /\ Return([type |-> "DELETE", table |-> id.value, where |-> Null])
  /\ UNCHANGED <<parserFields, selectLocals, updateLocals, exprLocals, expr>>

\* parseDelete() as it would be with the where of parseUpdate: an array
DeleteAfterExpressionAsList ==
  /\ pc = "deleteAfterExpression"
  /\ Return([type |-> "DELETE", table |-> table, where |-> <<expr>>])
  /\ UNCHANGED <<parserFields, current, ret, table, selectLocals, updateLocals, exprLocals, expr>>

\* parseDelete(): where = this.parseExpression(), and the return
DeleteAfterExpression ==
  /\ pc = "deleteAfterExpression"
  /\ Return([type |-> "DELETE", table |-> table, where |-> expr])
  /\ UNCHANGED <<parserFields, current, ret, table, selectLocals, updateLocals, exprLocals, expr>>

\* parseCreateTable(): skip two keywords, the table, skip '('
ParseCreateTable ==
  /\ pc = "parseCreateTable"
  /\ LET k1 == eat(tokens, current, "KEYWORD")
         k2 == eat(tokens, k1.current, "KEYWORD")
         id == parseIdentifier(tokens, k2.current)
     IN  /\ table' = id.value
         /\ current' = eat(tokens, id.current, "PAREN").current
  /\ columns' = <<>>
  /\ Goto("createColumns")
  /\ UNCHANGED <<parserFields, ret, and, or, tmp, updateLocals, exprLocals, expr>>

\* parseCreateTable(): one test of the column loop, and its body or the return
CreateColumn ==
  /\ pc = "createColumns"
  /\ IF ~hasMoreToken(tokens, current)
     THEN Throw("TypeError") /\ UNCHANGED <<current, columns>>
     ELSE IF currentToken(tokens, current).type = "IDENTIFIER"
     THEN LET column == parseIdentifier(tokens, current)
              type == parseIdentifier(tokens, column.current)
              comma == eat(tokens, type.current, "COMMA")
              cols == Append(columns, [name |-> column.value, dataType |-> type.value])
          IN  /\ columns' = cols
              /\ IF comma.token # Null
                 THEN /\ current' = comma.current
                      /\ Goto("createColumns")
                 ELSE /\ current' = eat(tokens, comma.current, "PAREN").current
                      /\ Return([type |-> "CREATE_TABLE", table |-> table, columns |-> cols])
     ELSE /\ current' = eat(tokens, current, "PAREN").current
          /\ Return([type |-> "CREATE_TABLE", table |-> table, columns |-> columns])
          /\ UNCHANGED columns
  /\ UNCHANGED <<parserFields, ret, table, and, or, tmp, updateLocals, exprLocals, expr>>

(***************************************************************************)
(* The inputs: SQL texts built from words.                                 *)
(***************************************************************************)
MaxConds == 3
MaxList == 3
MaxCols == 2

RECURSIVE Concat(_)
Concat(parts) == IF parts = <<>> THEN <<>> ELSE Head(parts) \o Concat(Tail(parts))

\* the non-empty words of ws, separated by single spaces
RECURSIVE JoinWith(_, _)
JoinWith(ws, sep) ==
  IF ws = <<>> THEN <<>>
  ELSE IF Head(ws) = <<>> THEN JoinWith(Tail(ws), sep)
  ELSE IF JoinWith(Tail(ws), sep) = <<>> THEN Head(ws)
  ELSE Head(ws) \o sep \o JoinWith(Tail(ws), sep)

Text(ws) == JoinWith(ws, <<" ">>)

\* all sequences over S of length 0..n
SeqsUpTo(S, n) == UNION { [1..k -> S] : k \in 0..n }

A_ == <<"a">>
ID_ == <<"i", "d">>
INFO_ == <<"i", "n", "f", "o">>
T_ == <<"t">>
U_ == <<"u">>
B_ == <<"b">>
X_ == <<"x">>
N1_ == <<"1">>
N07_ == <<"0", "7">>
N2_ == <<"2">>
N5_ == <<"5">>
DQX_ == <<"\"", "x", "\"">>
SQYZ_ == <<"'", "y", " ", "z", "'">>
DQ1_ == <<"\"", "1", "\"">>
SQX_ == <<"'", "x", "'">>
select_ == <<"s", "e", "l", "e", "c", "t">>
from_ == <<"f", "r", "o", "m">>
where_ == <<"w", "h", "e", "r", "e">>
and_ == <<"a", "n", "d">>
or_ == <<"o", "r">>
in_ == <<"i", "n">>
TEXT_ == <<"t", "e", "x", "t">>
EQ_ == <<"=">>
GT_ == <<">">>
LP_ == <<"(">>
RP_ == <<")">>
COMMA_ == <<",">>
SEMI_ == <<";">>

Idents == {A_, ID_, INFO_}
Nums == {N1_, N07_}
Strings == {DQX_, SQYZ_}

\* SELECT c1, c2 FROM t WHERE a = n
SelectText(c1, c2, t, a, n) ==
  Text(<<KW_SELECT, c1 \o COMMA_, c2, KW_FROM, t, KW_WHERE, a, EQ_, n>>)

SelectInputs ==
  { SelectText(c1, c2, t, a, n) : c1 \in Idents, c2 \in Idents, t \in Idents, a \in Idents,
                                  n \in Nums }

\* UPDATE t SET a = "x" WHERE id = n
UpdateText(t, a, s, id, n) ==
  Text(<<KW_UPDATE, t, KW_SET, a, EQ_, s, KW_WHERE, id, EQ_, n>>)

UpdateInputs ==
  { UpdateText(t, a, s, id, n) : t \in Idents, a \in Idents, s \in Strings, id \in Idents,
                                 n \in Nums }

\* statements without WHERE, in lower and in upper case
SelectHost == Text(<<select_, A_, from_, T_>>)
UpdateHost == Text(<<KW_UPDATE, T_, KW_SET, A_, EQ_, N1_>>)
DeleteHost == Text(<<KW_DELETE, KW_FROM, T_>>)
Hosts == {SelectHost, UpdateHost, DeleteHost}

\* the i-th condition of a WHERE clause: a=1, b=2, c=3, ...
CondAt(i) == <<LowerLetters[i], "=", DigitChars[i + 1]>>

\* what is written after a condition
Connectors == {KW_AND, KW_OR, or_, KW_NOT, <<>>}

\* the conditions 1..Len(conns), the i-th followed by conns[i]
WhereClause(conns) == Text(Concat([i \in DOMAIN conns |-> <<CondAt(i), conns[i]>>]))

WhereText(host, conns) == Text(<<host, KW_WHERE, WhereClause(conns)>>)

WhereInputs == { WhereText(host, conns) : host \in Hosts, conns \in SeqsUpTo(Connectors, MaxConds) }

\* ... WHERE id in (v1, ..., vn)
InValues == {N1_, N2_, DQ1_, DQX_, SQX_, X_}

\* (1, 2, 2, "x", "x")
ExampleList == <<N1_, N2_, N2_, DQX_, DQX_>>

InListText(host, vs, close) ==
  Text(<<host, where_, ID_, in_, LP_ \o JoinWith(vs, <<",", " ">>) \o close>>)

InListInputs ==
  { InListText(host, vs, RP_) : host \in {SelectHost, UpdateHost}, vs \in SeqsUpTo(InValues, MaxList) }
  \cup { InListText(SelectHost, vs, <<>>) : vs \in SeqsUpTo({N1_, X_}, 1) }
  \cup { InListText(SelectHost, ExampleList, RP_),
         Text(<<SelectHost, where_, ID_, in_, LP_, N1_, N2_, N1_, RP_, KW_AND, A_, EQ_, N1_>>),
         Text(<<SelectHost, where_, ID_, in_, LP_ \o INFO_ \o RP_>>),
         Text(<<SelectHost, where_, ID_, in_>>) }

\* ... WHERE id in (select b from u <inner>) <tail>
InnerGT == Text(<<where_, B_, GT_, <<"3", "0">>>>)
InnerAnd == Text(<<where_, B_, EQ_, N1_, and_, A_, EQ_, SQX_>>)
InnerInList == Text(<<where_, B_, in_, LP_ \o N1_ \o COMMA_, N2_ \o RP_>>)
InnerSubquery == Text(<<where_, B_, in_, LP_ \o Text(<<select_, A_, from_, T_>>) \o RP_>>)

InnerWheres == {<<>>, InnerGT, InnerAnd, InnerInList, InnerSubquery}

SubqueryTails == { <<>>, Text(<<and_, A_, EQ_, N1_>>), Text(<<KW_OR, A_, EQ_, N1_>>) }

InnerText(inner) == Text(<<select_, B_, from_, U_, inner>>)

SubqueryText(host, inner, tail) ==
  Text(<<host, KW_WHERE, ID_, in_, LP_ \o InnerText(inner) \o RP_, tail>>)

SubqueryInputs ==
  { SubqueryText(host, inner, tail) : host \in Hosts, inner \in InnerWheres, tail \in SubqueryTails }
  \cup { InnerText(inner) : inner \in InnerWheres }

\* well-formed and malformed statements of the four kinds
WhereParts ==
  { <<>>, SEMI_,
    Text(<<KW_WHERE, A_, EQ_, N1_>>),
    Text(<<KW_WHERE, A_, EQ_, N1_ \o SEMI_>>),
    Text(<<KW_WHERE, A_, EQ_>>),
    Text(<<KW_WHERE, A_>>),
    Text(<<KW_WHERE, EQ_, N1_>>) }

SelectShapes ==
  { Text(<<KW_SELECT, cols, fr, tb, wh>>) :
      cols \in {<<>>, A_, <<"*">>, Text(<<A_ \o COMMA_, B_>>), A_ \o COMMA_},
      fr \in {<<>>, KW_FROM}, tb \in {<<>>, T_}, wh \in WhereParts }

UpdateShapes ==
  { Text(<<KW_UPDATE, tb, st, asg, wh>>) :
      tb \in {<<>>, T_}, st \in {<<>>, KW_SET},
      asg \in { <<>>, Text(<<A_, EQ_, N1_>>), Text(<<A_, EQ_, B_>>),
                Text(<<A_, EQ_, N1_ \o COMMA_, B_, EQ_, SQX_>>),
                Text(<<A_, EQ_, N1_ \o COMMA_, A_, EQ_, N2_>>) },
      wh \in WhereParts }

DeleteShapes ==
  { Text(<<KW_DELETE, fr, tb, wh>>) : fr \in {<<>>, KW_FROM}, tb \in {<<>>, T_}, wh \in WhereParts }

\* DELETE FROM t WHERE id = n
DeleteText(t, id, n) == Text(<<KW_DELETE, KW_FROM, t, KW_WHERE, id, EQ_, n>>)

DeleteInputs == { DeleteText(t, id, n) : t \in {T_, U_}, id \in {ID_, A_}, n \in {N5_, N07_} }

\* texts with characters that no alternative of the regular expression matches,
\* alone, between two words, before a number, and as an opening quote without its closing one
StrayChars == {"-", ".", "@", "!"}

StrayInputs ==
  { <<c>> : c \in StrayChars }
  \cup { Text(<<KW_SELECT, A_ \o <<c>> \o B_, KW_FROM, T_>>) : c \in StrayChars }
  \cup { Text(<<SelectHost, where_, A_, EQ_, <<c>> \o N1_>>) : c \in StrayChars \cup {"\"", "'"} }

\* CREATE TABLE t (name datatype, ...)
ColumnNames == {A_, B_}
DataTypes == {KW_INT, KW_VARCHAR, TEXT_}

ColumnList(pairs) ==
  LP_ \o JoinWith([i \in DOMAIN pairs |-> Text(<<pairs[i][1], pairs[i][2]>>)], <<",", " ">>) \o RP_

CreateTableText(t, pairs) == Text(<<KW_CREATE, KW_TABLE, t, ColumnList(pairs)>>)

ColumnLists ==
  { ColumnList(pairs) : pairs \in SeqsUpTo(ColumnNames \X DataTypes, MaxCols) }
  \cup { <<>>, Text(<<LP_ \o A_, TEXT_>>) }

CreateShapes ==
  { Text(<<KW_CREATE, kw, tb, cols>>) :
      kw \in {<<>>, KW_TABLE, KW_SELECT}, tb \in {<<>>, T_}, cols \in ColumnLists }

\* statements followed by one more word
ExtraWordInputs ==
  { Text(<<host, X_>>) : host \in Hosts } \cup { Text(<<CreateTableText(T_, <<<<A_, TEXT_>>>>), X_>>) }

\* two values with no comma between them
AdjacentValueInputs ==
  { Text(<<SelectHost, where_, A_, EQ_, B_, DQX_>>),
    Text(<<SelectHost, where_, A_, EQ_, DQX_, N1_>>),
    Text(<<SelectHost, where_, ID_, in_, LP_ \o X_, DQX_ \o COMMA_, N1_, N2_ \o RP_>>),
    Text(<<KW_UPDATE, T_, KW_SET, A_, EQ_, DQX_, N5_>>) }

OtherShapes ==
  { Text(<<first, rest>>) :
      first \in {<<>>, A_, N1_, KW_FROM, KW_INSERT, KW_TABLE, LP_, SEMI_, DQX_},
      rest \in { <<>>, Text(<<A_, KW_FROM, T_>>), Text(<<KW_TABLE, T_, LP_ \o A_, TEXT_ \o RP_>>) } }

Inputs ==
  SelectInputs \cup UpdateInputs \cup WhereInputs \cup InListInputs \cup SubqueryInputs
  \cup SelectShapes \cup UpdateShapes \cup DeleteShapes \cup CreateShapes \cup OtherShapes
  \cup DeleteInputs \cup StrayInputs \cup ExtraWordInputs \cup AdjacentValueInputs

(***************************************************************************)
(* The specification: new SQLParser(sql) on an input, then parse()         *)
(***************************************************************************)
Init ==
  /\ sql \in Inputs
  /\ tokens = tokenize(sql)
  /\ current = 0
  /\ pc = "parse"
  /\ ret = "none"
  /\ columns = <<>>
  /\ table = Null
  /\ set = <<>>
  /\ where = <<>>
  /\ and = <<>>
  /\ or = <<>>
  /\ tmp = <<>>
  /\ left = Null
  /\ operator = Null
  /\ exprTmp = <<>>
  /\ expr = Null
  /\ stack = <<>>
  /\ outcome = Null
  /\ earlier = <<>>

\* the text given to the outermost parser
input == IF stack = <<>> THEN sql ELSE stack[1].sql

\* parse() of the outermost parser has returned a Statement
Returned == pc = "done" /\ stack = <<>>

\* parse() of the outermost parser has thrown
Failed == pc = "failed"

\* parse() of the outermost parser has ended
Finished == Returned \/ Failed

\* the constructor as it would be if the cursor were shared by all parsers
\* (a static field) and not set by the constructor
constructSharedCursor(s) == [sql |-> s, tokens |-> tokenize(s), current |-> current]

\* new SQLParser(s): the fields of the new object
construct(s) == [sql |-> s, tokens |-> tokenize(s), current |-> 0]

\* after a parse has ended, the caller constructs the next parser, on the same
\* text or on the text followed by a semicolon
NewParser ==
  /\ Finished
  /\ earlier = <<>>
  /\ \E s \in {input, input \o SEMI_} :
       LET parser == construct(s)
       IN  /\ sql' = parser.sql
           /\ tokens' = parser.tokens
           /\ current' = parser.current
  /\ earlier' = <<[sql |-> input, pc |-> pc, outcome |-> outcome]>>
  /\ pc' = "parse"
  /\ ret' = "none"
  /\ columns' = <<>>
  /\ table' = Null
  /\ set' = <<>>
  /\ where' = <<>>
  /\ and' = <<>>
  /\ or' = <<>>
  /\ tmp' = <<>>
  /\ left' = Null
  /\ operator' = Null
  /\ exprTmp' = <<>>
  /\ expr' = Null
  /\ stack' = <<>>
  /\ outcome' = Null

Next ==
  \/ Parse
  \/ ParseSelect
  \/ SelectColumn
  \/ SelectFrom
  \/ SelectWhere
  \/ SelectAfterExpression
  \/ ParseExpression
  \/ SubqueryReturn
  \/ InList
  \/ ParseUpdate
  \/ UpdateSet
  \/ UpdateWhereKeyword
  \/ UpdateWhere
  \/ UpdateAfterExpression
  \/ ParseDelete
  \/ DeleteAfterExpression
  \/ ParseCreateTable
  \/ CreateColumn
  \/ NewParser

Spec == Init /\ [][Next]_vars

(***************************************************************************)
(* Statements and conditions as the claims write them                      *)
(***************************************************************************)
Condition(l, op, r) == [left |-> Str(l), operator |-> Str(op), right |-> r]

AndGroup(conds) == [operator |-> "and", condition |-> conds]

OrGroup(conds) == [operator |-> "or", condition |-> conds]

SelectStatement(cols, t, w) ==
  [type |-> "SELECT", columns |-> [i \in DOMAIN cols |-> Str(cols[i])], table |-> Str(t),
   where |-> w]

\* a=1, b=2, c=3, ... as parsed conditions
ParsedCondAt(i) == Condition(<<LowerLetters[i]>>, EQ_, Num(i))

(***************************************************************************)
(* C1.  For every statement `SELECT c1, c2 FROM t WHERE a = n` with        *)
(* identifiers c1, c2, t, a (runs of word characters that are no keyword)  *)
(* and a decimal integer n, parse() returns the SELECT statement with      *)
(* columns [c1, c2], table t and where = [AND group with the one condition *)
(* {left: a, operator: "=", right: n}].                                    *)
(* The code does not: an identifier that starts with "in" is lexed as the  *)
(* operator IN followed by the rest of the word.                           *)
(***************************************************************************)
C1_SelectResult ==
  (Finished /\ input \in SelectInputs) =>
    \A c1 \in Idents, c2 \in Idents, t \in Idents, a \in Idents, n \in Nums :
      input = SelectText(c1, c2, t, a, n) =>
        /\ Returned
        /\ outcome = SelectStatement(<<c1, c2>>, t,
                                     <<AndGroup(<<Condition(a, EQ_, Num(ParseInt(n)))>>)>>)

(***************************************************************************)
(* C2.  The text of the claim: a SELECT whose WHERE clause is              *)
(* `a=1 AND b=2 OR c=3` yields the AND group [a=1, b=2] followed by the OR *)
(* group [c=3].                                                            *)
(***************************************************************************)
MixedConnectors == <<KW_AND, KW_OR, <<>> >>

C2_MixedCollapseAsClaimed ==
  (Finished /\ input = WhereText(SelectHost, MixedConnectors)) =>
    /\ Returned
    /\ outcome.where = <<AndGroup(<<ParsedCondAt(1), ParsedCondAt(2)>>),
                         OrGroup(<<ParsedCondAt(3)>>)>>

(***************************************************************************)
(* C2, amended.  `a=1 AND b=2 OR c=3` yields exactly two groups, in this   *)
(* order: the AND group [a=1, c=3] and the OR group [b=2]: b=2 is the      *)
(* condition that is followed by OR.                                       *)
(***************************************************************************)
C2_MixedCollapse ==
  (Finished /\ input = WhereText(SelectHost, MixedConnectors)) =>
    /\ Returned
    /\ outcome.type = "SELECT"
    /\ outcome.where = <<AndGroup(<<ParsedCondAt(1), ParsedCondAt(3)>>),
                         OrGroup(<<ParsedCondAt(2)>>)>>

C2_Witness ==
  /\ Returned
  /\ input = WhereText(SelectHost, MixedConnectors)
  /\ Len(outcome.where) = 2

(***************************************************************************)
(* C3.  The WHERE grouping policy of SELECT.  A parsed condition goes to   *)
(* the OR bucket exactly when the token that follows it is the keyword OR  *)
(* (the lexer upper-cases keywords, so in any letter case) and to the AND  *)
(* bucket otherwise, at the end of its bucket; the returned where has the  *)
(* AND group first and the OR group second, leaves out the group of an     *)
(* empty bucket, never has two groups of one combinator, holds each bucket *)
(* in its order, and holds no connector keyword.                           *)
(***************************************************************************)
FollowedByOr ==
  /\ current < Len(tokens)
  /\ tokens[current + 1].type = "KEYWORD"
  /\ tokens[current + 1].value = KW_OR

C3_BucketStep ==
  (pc = "selectAfterExpression" /\ pc' = "selectWhere") =>
    IF FollowedByOr
    THEN or' = Append(or, expr) /\ and' = and
    ELSE and' = Append(and, expr) /\ or' = or

C3_WhereShape ==
  (pc = "done" /\ outcome.type = "SELECT") =>
    LET w == outcome.where
    IN  /\ Len(w) \in 0..2
        /\ \A i \in DOMAIN w : w[i].operator \in {"and", "or"} /\ w[i].condition # <<>>
        /\ \A i \in DOMAIN w : \A j \in DOMAIN w :
             /\ i # j => w[i].operator # w[j].operator
             /\ i < j => w[i].operator = "and" /\ w[j].operator = "or"
        /\ \A i \in DOMAIN w : w[i].condition = IF w[i].operator = "and" THEN and ELSE or
        /\ and # <<>> => \E i \in DOMAIN w : w[i].operator = "and"
        /\ or # <<>> => \E i \in DOMAIN w : w[i].operator = "or"
        /\ \A i \in DOMAIN w : \A k \in DOMAIN w[i].condition :
             /\ DOMAIN w[i].condition[k] = {"left", "operator", "right"}
             /\ ToUpperCase(w[i].condition[k].left.s) \notin {KW_AND, KW_OR}

C3_KeywordsUpperCase ==
  \A i \in DOMAIN tokens : tokens[i].type = "KEYWORD" => tokens[i].value = ToUpperCase(tokens[i].value)

C3_GroupingPolicy ==
  /\ [][C3_BucketStep]_vars
  /\ [](C3_WhereShape /\ C3_KeywordsUpperCase)

\* `a=1 or b=2 AND c=3`, with OR in lower case, has returned [AND [b=2, c=3], OR [a=1]]
C3_Witness ==
  /\ Returned
  /\ input = WhereText(SelectHost, <<or_, KW_AND, <<>> >>)
  /\ outcome.where = <<AndGroup(<<ParsedCondAt(2), ParsedCondAt(3)>>), OrGroup(<<ParsedCondAt(1)>>)>>

(***************************************************************************)
(* C4.  For every statement `UPDATE t SET a = "x" WHERE id = n`, parse()   *)
(* returns an UPDATE statement whose assignments are exactly {a: x} and    *)
(* whose where is grouped as in SELECT: one AND group holding the single   *)
(* condition on id.  Stated here for the identifiers that the lexer keeps  *)
(* whole (those that do not start with "in").                              *)
(* The code does not: parseUpdate pushes the conditions on a bare list.    *)
(***************************************************************************)
WholeIdents == Idents \ {INFO_}

C4_UpdateResult ==
  (Finished /\ input \in UpdateInputs) =>
    \A t \in WholeIdents, a \in WholeIdents, s \in Strings, id \in WholeIdents, n \in Nums :
      input = UpdateText(t, a, s, id, n) =>
        /\ Returned
        /\ outcome.type = "UPDATE"
        /\ outcome.table = Str(t)
        /\ outcome.set = <<[key |-> a, value |-> Str(SubSeq(s, 2, Len(s) - 1))]>>
        /\ outcome.where = <<AndGroup(<<Condition(id, EQ_, Num(ParseInt(n)))>>)>>

(***************************************************************************)
(* C5.  The right-hand side of `x IN (v1, ..., vn)`, the vi being          *)
(* identifier, string and number tokens, is the list of the distinct       *)
(* values among v1..vn in the order of their first occurrences: no two     *)
(* elements are equal, every vi is in it, it holds nothing else, and first *)
(* occurrences keep their order; (1, 2, 2, "x", "x") gives [1, 2, "x"],    *)
(* and the integer 1 and the string "1" are different values.              *)
(***************************************************************************)
\* the value a token of the list stands for
TokenValue(tok) ==
  IF tok.type = "NUMBER" THEN Num(ParseInt(tok.value))
  ELSE IF tok.type = "STRING" THEN Str(SubSeq(tok.value, 2, Len(tok.value) - 1))
  ELSE Str(tok.value)

\* the last IN operator among the first cur tokens
LastIn(toks, cur) ==
  CHOOSE k \in 1..cur :
    /\ toks[k].type = "OPERATOR" /\ ToUpperCase(toks[k].value) = OP_IN
    /\ \A m \in (k + 1)..cur : ~(toks[m].type = "OPERATOR" /\ ToUpperCase(toks[m].value) = OP_IN)

IsValueToken(tok) == tok.type \in {"IDENTIFIER", "STRING", "NUMBER"}

\* the values written in the list so far: those of the value tokens consumed since IN
WrittenValues(toks, cur) ==
  LET items == SelectSeq(SubSeq(toks, LastIn(toks, cur) + 1, cur), IsValueToken)
  IN  [i \in DOMAIN items |-> TokenValue(items[i])]

FirstIndex(vals, v) == CHOOSE i \in DOMAIN vals : vals[i] = v /\ \A j \in 1..(i - 1) : vals[j] # v

IsFirstOccurrences(r, vals) ==
  /\ \A i \in DOMAIN r : \A j \in DOMAIN r : i # j => r[i] # r[j]
  /\ \A i \in DOMAIN vals : \E k \in DOMAIN r : r[k] = vals[i]
  /\ \A k \in DOMAIN r : \E i \in DOMAIN vals : vals[i] = r[k]
  /\ \A k1 \in DOMAIN r : \A k2 \in DOMAIN r :
       k1 < k2 => FirstIndex(vals, r[k1]) < FirstIndex(vals, r[k2])

C5_ListReturned ==
  (pc = "inList" /\ pc' \notin {"inList", "failed"}) =>
    /\ expr'.left = left
    /\ expr'.right.t = "array"
    /\ IsFirstOccurrences(expr'.right.items, WrittenValues(tokens, current))

C5_ListSoFar == pc = "inList" => IsFirstOccurrences(exprTmp, WrittenValues(tokens, current))

InCondition(r) == [left |-> Str(ID_), operator |-> Str(in_), right |-> Array(r)]

C5_Examples ==
  /\ (Finished /\ input = InListText(SelectHost, ExampleList, RP_)) =>
       /\ Returned
       /\ outcome.where = <<AndGroup(<<InCondition(<<Num(1), Num(2), Str(<<"x">>)>>)>>)>>
  /\ (Finished /\ input = InListText(SelectHost, <<DQ1_, N1_, DQ1_>>, RP_)) =>
       /\ Returned
       /\ outcome.where = <<AndGroup(<<InCondition(<<Str(<<"1">>), Num(1)>>)>>)>>

InnerStatement(inner) ==
  SelectStatement(<<B_>>, U_,
    CASE inner = <<>> -> <<>>
      [] inner = InnerGT -> <<AndGroup(<<Condition(B_, GT_, Num(30))>>)>>
      [] inner = InnerAnd ->
           <<AndGroup(<<Condition(B_, EQ_, Num(1)), Condition(A_, EQ_, Str(<<"x">>))>>)>>
      [] inner = InnerInList -> <<AndGroup(<<Condition(B_, in_, Array(<<Num(1), Num(2)>>))>>)>>
      [] inner = InnerSubquery ->
           <<AndGroup(<<Condition(B_, in_, Array(<<SelectStatement(<<A_>>, T_, <<>>)>>))>>)>>)

\* every inner text is accepted when parsed on its own, with that Statement
C6_InnerAccepted ==
  \A inner \in InnerWheres :
    (Finished /\ input = InnerText(inner)) => (Returned /\ outcome = InnerStatement(inner))

C6_SubqueryResult ==
  (Finished /\ input \in SubqueryInputs) =>
    \A inner \in InnerWheres, tail \in SubqueryTails :
      input = SubqueryText(SelectHost, inner, tail) =>
        /\ Returned
        /\ \E g \in DOMAIN outcome.where : \E k \in DOMAIN outcome.where[g].condition :
             outcome.where[g].condition[k] =
               Condition(ID_, in_, Array(<<InnerStatement(inner)>>))

(***************************************************************************)
(* C7.  Malformed input never yields a Statement: `SELECT FROM` without a  *)
(* column list (with or without a table) and a WHERE condition that has a  *)
(* left identifier and an operator but no right-hand value make parse()    *)
(* throw.                                                                  *)
(* The code does not: it returns a Statement with empty columns, a null    *)
(* table or a null right-hand side.                                        *)
(***************************************************************************)
DanglingOperator == Text(<<KW_WHERE, A_, EQ_>>)

MalformedInputs ==
  { Text(<<KW_SELECT, KW_FROM>>),
    Text(<<KW_SELECT, KW_FROM, T_>>),
    Text(<<KW_SELECT, A_, KW_FROM, T_, DanglingOperator>>),
    Text(<<KW_UPDATE, T_, KW_SET, A_, EQ_, N1_, DanglingOperator>>),
    Text(<<KW_DELETE, KW_FROM, T_, DanglingOperator>>) }

C7_MalformedFails == (Finished /\ input \in MalformedInputs) => Failed

(***************************************************************************)
(* C8.  Every Statement that parse() returns has a non-null table name.    *)
(* The code does not: parseIdentifier returns null at the table position   *)
(* and no statement parser tests it.                                       *)
(***************************************************************************)
C8_TableNotNull == Returned => outcome.table # Null

(***************************************************************************)
(* C9.  parse() returns a Statement only if the first token is the keyword *)
(* SELECT, UPDATE or DELETE, or the keyword CREATE immediately followed by *)
(* the keyword TABLE.                                                      *)
(* The code does not: after CREATE it never looks for TABLE.               *)
(***************************************************************************)
C9_Dispatch ==
  Returned =>
    /\ tokens # <<>>
    /\ tokens[1].type = "KEYWORD"
    /\ \/ tokens[1].value \in {KW_SELECT, KW_UPDATE, KW_DELETE}
       \/ /\ tokens[1].value = KW_CREATE
          /\ Len(tokens) >= 2
          /\ tokens[2] = Token("KEYWORD", KW_TABLE)

(***************************************************************************)
(* C10.  `CREATE TABLE t (a INT, b VARCHAR)` parses to CREATE_TABLE with   *)
(* table t and columns [{a, INT}, {b, VARCHAR}]; for any list of           *)
(* `name datatype` pairs between parentheses, columns has one entry per    *)
(* pair, in written order, with the written name and the written datatype. *)
(* The code does not: INT is lexed as the operator IN and T, VARCHAR as a  *)
(* keyword, and parseIdentifier accepts neither, so dataType is null.      *)
(***************************************************************************)
ColumnPairs == SeqsUpTo(ColumnNames \X DataTypes, MaxCols)

CreateTableInputs == { CreateTableText(T_, pairs) : pairs \in ColumnPairs }

C10_CreateTable ==
  (Finished /\ input \in CreateTableInputs) =>
    \A pairs \in ColumnPairs :
      input = CreateTableText(T_, pairs) =>
        /\ Returned
        /\ outcome = [type |-> "CREATE_TABLE", table |-> Str(T_),
                      columns |-> [i \in DOMAIN pairs |->
                                     [name |-> Str(pairs[i][1]), dataType |-> Str(pairs[i][2])]]]

(***************************************************************************)
(* C11.  A trailing semicolon is ignored: when a text parses to a          *)
(* Statement, the text followed by `;` parses too, to an equal Statement.  *)
(* The code does not: after a condition the WHERE loops of parseSelect and *)
(* parseUpdate go on at any token that is not a keyword, the semicolon     *)
(* included, and parseExpression throws on it.                             *)
(***************************************************************************)
C11_TrailingSemicolon ==
  (/\ Finished
   /\ earlier # <<>>
   /\ earlier[1].pc = "done"
   /\ input = earlier[1].sql \o SEMI_) => (Returned /\ outcome = earlier[1].outcome)

(***************************************************************************)
(* C12.  `DELETE FROM t WHERE id = 5` yields a DELETE statement with table *)
(* t and where = the one condition {left: id, operator: "=", right: 5}, a  *)
(* bare condition and no group; a DELETE without WHERE yields where =      *)
(* null; and when the WHERE clause holds several conditions with           *)
(* connectors between them, where is the first condition.                  *)
(***************************************************************************)
DeleteStatement(t, w) == [type |-> "DELETE", table |-> Str(t), where |-> w]

C12_Delete ==
  /\ (Finished /\ input \in DeleteInputs) =>
       \A t \in {T_, U_}, id \in {ID_, A_}, n \in {N5_, N07_} :
         input = DeleteText(t, id, n) =>
           /\ Returned
           /\ outcome = DeleteStatement(t, Condition(id, EQ_, Num(ParseInt(n))))
  /\ (Finished /\ input = DeleteHost) => (Returned /\ outcome = DeleteStatement(T_, Null))
  /\ (Finished /\ input \in WhereInputs) =>
       \A conns \in SeqsUpTo(Connectors, MaxConds) :
         (Len(conns) >= 1 /\ input = WhereText(DeleteHost, conns)) =>
           /\ Returned
           /\ outcome = DeleteStatement(T_, ParsedCondAt(1))

\* DELETE FROM t WHERE a=1 AND b=2 OR c=3 has been parsed, to where = a=1
C12_Witness ==
  /\ Returned
  /\ input = WhereText(DeleteHost, <<KW_AND, KW_OR, <<>>>>)
  /\ outcome.where = ParsedCondAt(1)
  /\ current < Len(tokens)

(***************************************************************************)
(* C13.  Word tokenization: every maximal run of word characters that      *)
(* starts with a letter, outside quotes and outside a subquery span,       *)
(* produces exactly one token: an OPERATOR if the word is IN in any letter *)
(* case, a KEYWORD with upper-cased text if it is one of the 22 keywords   *)
(* in any letter case, and otherwise an IDENTIFIER with the word as        *)
(* written.  Stated for the texts without quotes and parentheses, whose    *)
(* words are all outside quotes and subqueries.                            *)
(* The code does not: the operator alternative is tried first and has no   *)
(* word boundary, so a word that starts with `in` is split.                *)
(***************************************************************************)
IsLetter(c) == c \in LowerSet \cup UpperSet

\* no quote and no parenthesis, and every run that starts with a digit is a number
PlainText(s) ==
  /\ \A i \in DOMAIN s : s[i] \notin {"\"", "'", "(", ")"}
  /\ \A i \in DOMAIN s :
       (IsDigit(s[i]) /\ (i = 1 \/ ~IsWordChar(s[i - 1]))) => DigitRunEnd(s, i) = WordRunEnd(s, i)

\* the maximal runs of word characters of s, from position i on, that start with a letter
RECURSIVE WordsFrom(_, _)
WordsFrom(s, i) ==
  IF i > Len(s) THEN <<>>
  ELSE IF ~IsWordChar(s[i]) THEN WordsFrom(s, i + 1)
  ELSE LET e == WordRunEnd(s, i)
       IN  (IF IsLetter(s[i]) THEN <<SubSeq(s, i, e - 1)>> ELSE <<>>) \o WordsFrom(s, e)

\* the one token a word is to produce
WordToken(w) ==
  IF ToUpperCase(w) = OP_IN THEN Token("OPERATOR", w)
  ELSE IF ToUpperCase(w) \in Range(RegexKeywords) THEN Token("KEYWORD", ToUpperCase(w))
  ELSE Token("IDENTIFIER", w)

IsWordToken(tok) == tok.value # <<>> /\ IsLetter(tok.value[1])

C13_WordTokens ==
  PlainText(sql) =>
    LET words == WordsFrom(sql, 1)
    IN  SelectSeq(tokens, IsWordToken) = [i \in DOMAIN words |-> WordToken(words[i])]

(***************************************************************************)
(* C14.  The lexer is total and loses no input: tokenize returns a token   *)
(* sequence for every text, every character of the text that is no white   *)
(* space belongs to the text of some token, and a character that matches   *)
(* no other token rule (`-`, `.`, `@`, `!` alone) becomes an IDENTIFIER    *)
(* token.                                                                  *)
(* The code does not: exec moves on to the next position that matches, so  *)
(* such a character is in no token.                                        *)
(***************************************************************************)
NotSpace(c) == ~IsSpace(c)

\* the characters of the tokens, in order, without white space and in upper case
TokenChars(toks) ==
  SelectSeq(ToUpperCase(Concat([i \in DOMAIN toks |-> toks[i].value])), NotSpace)

C14_NoInputLost ==
  /\ TokenChars(tokens) = SelectSeq(ToUpperCase(sql), NotSpace)
  /\ \A c \in StrayChars : sql = <<c>> => tokens = <<Token("IDENTIFIER", <<c>>)>>

(***************************************************************************)
(* C15.  eat(kind) never throws, in every parser state, the cursor at the  *)
(* end of the input included: when there is a current token and its kind   *)
(* is `kind`, eat returns that token and the cursor increases by exactly   *)
(* 1; otherwise it returns null and leaves the cursor.  Over a parse the   *)
(* cursor of a parser never decreases, 0 <= current <= number of tokens,   *)
(* and the token sequence is never modified.                               *)
(***************************************************************************)
TokenTypes ==
  {"KEYWORD", "SUBQUERY", "IDENTIFIER", "STRING", "NUMBER", "OPERATOR", "PAREN", "COMMA",
   "SEMICOLON"}

\* what eat(kind) is to do in the state (toks, cur)
EatContract(toks, cur, kind) ==
  LET r == eat(toks, cur, kind)
  IN  IF cur < Len(toks) /\ toks[cur + 1].type = kind
      THEN r.token = toks[cur + 1] /\ r.current = cur + 1
      ELSE r.token = Null /\ r.current = cur

C15_EatInEveryState == \A kind \in TokenTypes : EatContract(tokens, current, kind)

C15_CursorInRange == 0 <= current /\ current <= Len(tokens)

\* during a parse: a step of one parser; the parser suspended at a subquery, past the
\* left identifier, IN and the subquery token; the parser resumed after the subquery
C15_CursorStep ==
  earlier' = earlier =>
    /\ Len(stack') = Len(stack) => (current' >= current /\ tokens' = tokens /\ sql' = sql)
    /\ Len(stack') > Len(stack) =>
         LET f == stack'[Len(stack')]
         IN  f.current = current + 3 /\ f.tokens = tokens /\ f.sql = sql
    /\ Len(stack') < Len(stack) =>
         LET f == stack[Len(stack)]
         IN  current' = f.current /\ tokens' = f.tokens /\ sql' = f.sql

C15_EatAndCursor ==
  /\ [](C15_EatInEveryState /\ C15_CursorInRange)
  /\ [][C15_CursorStep]_vars

\* eat("KEYWORD") is called with the cursor at the end of the input and returns null
C15_Witness ==
  /\ pc = "selectFrom"
  /\ tokens # <<>>
  /\ current = Len(tokens)
  /\ eat(tokens, current, "KEYWORD") = [token |-> Null, current |-> current]

AllConsumed(toks, cur) ==
  \/ cur = Len(toks)
  \/ cur = Len(toks) - 1 /\ toks[Len(toks)].type = "SEMICOLON"

C17_NoSilentSkipping == Returned => AllConsumed(tokens, current)

(***************************************************************************)
(* C18.  Termination: for every text, constructing the parser and calling  *)
(* parse() ends, with a Statement or with an exception: every iteration of *)
(* the tokenize loop consumes at least one character; every iteration of   *)
(* the WHERE loops, of the IN-list loop and of the column and assignment   *)
(* loops advances the cursor by at least one token or throws; and a        *)
(* subquery is parsed on a text strictly shorter than the text of the      *)
(* enclosing parse.  The end is reached because a natural number that      *)
(* every step of a parse makes smaller cannot be made smaller for ever.    *)
(***************************************************************************)
\* from whatever position exec starts, a match ends after that position
C18_TokenizeStep ==
  pc = "parse" =>
    \A i \in 1..Len(sql) :
      LET m == Exec(sql, i) IN m # NoMatch => (m.start >= i /\ m.end > m.start)

\* the body of a loop is entered
InLoopBody ==
  /\ hasMoreToken(tokens, current)
  /\ \/ pc \in {"selectColumns", "updateSet", "createColumns"}
        /\ currentToken(tokens, current).type = "IDENTIFIER"
     \/ pc = "inList" /\ currentToken(tokens, current).type \in ValueTokenTypes
     \/ pc \in {"selectWhere", "updateWhere"} /\ currentToken(tokens, current).type # "KEYWORD"

\* the first call in the body of a loop that tests itself again takes a token
C18_BodyTakesToken ==
  /\ (InLoopBody /\ pc = "inList") => parseValue(tokens, current).current > current
  /\ (InLoopBody /\ pc \in {"selectColumns", "updateSet", "createColumns"}) =>
       parseIdentifier(tokens, current).current > current

\* a loop body: the cursor advances or parse() throws; the condition of a WHERE
\* loop is read by parseExpression, which advances, throws, or suspends its parser
\* past a subquery token; the rest of that loop body does not move back
C18_LoopStep ==
  /\ (InLoopBody /\ pc \notin {"selectWhere", "updateWhere"}) =>
       (current' > current \/ pc' = "failed")
  /\ (InLoopBody /\ pc \in {"selectWhere", "updateWhere"}) => pc' = "parseExpression"
  /\ pc = "parseExpression" =>
       \/ pc' = "failed"
       \/ Len(stack') = Len(stack) /\ current' > current
       \/ /\ Len(stack') = Len(stack) + 1
          /\ stack'[Len(stack')].current > current
          /\ Len(sql') < Len(sql)
  /\ pc \in {"selectAfterExpression", "updateAfterExpression"} => current' >= current

\* how far a position of parse() is from its end when the cursor stands still
StepsLeft(label) ==
  CASE label = "parse" -> 19
    [] label \in {"parseSelect", "parseUpdate", "parseDelete", "parseCreateTable"} -> 18
    [] label \in {"selectColumns", "updateSet", "createColumns"} -> 17
    [] label \in {"selectFrom", "updateWhereKeyword"} -> 16
    [] label = "inList" -> 15
    [] label \in {"selectAfterExpression", "updateAfterExpression",
                  "deleteAfterExpression"} -> 14
    [] label \in {"selectWhere", "updateWhere"} -> 13
    [] label = "parseExpression" -> 12
    [] label = "done" -> 1
    [] OTHER -> 0

RECURSIVE TokensLeft(_, _)
\* the tokens after the cursor, a subquery token counted with the tokens of its text
TokensLeft(toks, cur) ==
  IF cur >= Len(toks) THEN 0
  ELSE LET tok == toks[cur + 1]
       IN  (IF tok.type = "SUBQUERY"
            THEN 2 + TokensLeft(tokenize(StripQuotes(tok.value)), 0)
            ELSE 1) + TokensLeft(toks, cur + 1)

RECURSIVE SuspendedWork(_)
\* what the suspended parsers still have to do once their subquery has returned
SuspendedWork(frames) ==
  IF frames = <<>> THEN 0
  ELSE LET f == Head(frames)
       IN  20 * TokensLeft(f.tokens, f.current) + StepsLeft(f.ret) + 1
           + SuspendedWork(Tail(frames))

\* the variant of a parse: a token left counts for more than all positions
WorkLeft(toks, cur, label, frames) ==
  20 * TokensLeft(toks, cur) + StepsLeft(label) + SuspendedWork(frames)

\* every step of a parse leaves less to do
C18_LessWorkLeft ==
  earlier' = earlier =>
    WorkLeft(tokens', current', pc', stack') < WorkLeft(tokens, current, pc, stack)

\* a parse that has not ended stands at a position from which it goes on
C18_GoesOn ==
  \/ Finished
  \/ pc = "done" /\ stack # <<>>
  \/ pc \in {"parse", "parseSelect", "selectColumns", "selectFrom", "selectWhere",
             "selectAfterExpression", "parseExpression", "inList", "parseUpdate",
             "updateSet", "updateWhereKeyword", "updateWhere", "updateAfterExpression",
             "parseDelete", "deleteAfterExpression", "parseCreateTable", "createColumns"}

C18_Terminates ==
  /\ [](C18_TokenizeStep /\ C18_BodyTakesToken /\ C18_GoesOn)
  /\ [](WorkLeft(tokens, current, pc, stack) \in Nat)
  /\ [][C18_LoopStep]_vars
  /\ [][C18_LessWorkLeft]_vars

\* a SELECT whose WHERE has a subquery with two conditions, and a second condition,
\* has been parsed to the end
C18_Witness ==
  /\ Returned
  /\ input = SubqueryText(SelectHost, InnerAnd, Text(<<and_, A_, EQ_, N1_>>))
  /\ Len(outcome.where[1].condition) = 2

====
